---- MODULE Spec2Model ----
(***************************************************************************)
(* Model of src/commands/address.ts of vanity.web3: the `address` command. *)
(* One coordinator (cluster primary) parses and validates the patterns,    *)
(* forks `workers` processes and counts their completion messages; each    *)
(* worker runs the search loop once, emits its record and sends one        *)
(* message.  Strings are sequences of one-character strings.               *)
(***************************************************************************)
EXTENDS Integers, Sequences, FiniteSets, TLC

VARIABLES
    args,        \* [prefix, suffix]: the raw positional arguments
    flags,       \* [chain, caseSensitive, workers, num]: the parsed flags
    cpus,        \* os.cpus().length
    prefixes,    \* run(): const prefixes
    suffixes,    \* run(): const suffixes
    workers,     \* run(): const workers
    num,         \* run(): const num
    pc,          \* position of the primary inside run()
    error,       \* what this.error() was called with, <<>> if it was not
    logged,      \* TRUE once `Generating ... vanity address...` was logged
    i,           \* the fork loop's counter
    count,       \* run(): let count
    wstate,      \* per worker process: where it is
    signalled,   \* per worker process: process.kill() was called on it
    chan,        \* per worker: messages sent and not yet handled
    sent,        \* per worker: number of process.send calls made
    records,     \* number of match records emitted (notify + print/append)
    keypairs,    \* number of keypairs generated by all workers (saturating)
    gen          \* the generator's locals and result in one worker process

vars == <<args, flags, cpus, prefixes, suffixes, workers, num, pc, error,
          logged, i, count, wstate, signalled, chan, sent, records, keypairs,
          gen>>

inputVars == <<args, flags, cpus>>
poolVars == <<wstate, signalled, chan, sent, records, keypairs>>

-----------------------------------------------------------------------------
(* Bounds of the model. *)
MaxWorkers == 3
MaxNum == 3
MaxKeys == 2

-----------------------------------------------------------------------------
(* Strings. *)
UpperLetters == <<"A","B","C","D","E","F","G","H","I","J","K","L","M",
                  "N","O","P","Q","R","S","T","U","V","W","X","Y","Z">>
LowerLetters == <<"a","b","c","d","e","f","g","h","i","j","k","l","m",
                  "n","o","p","q","r","s","t","u","v","w","x","y","z">>

Chars(s) == {s[k] : k \in 1..Len(s)}

toLowerCaseChar(c) ==
    IF \E k \in 1..26 : UpperLetters[k] = c
    THEN LowerLetters[CHOOSE k \in 1..26 : UpperLetters[k] = c]
    ELSE c

toUpperCaseChar(c) ==
    IF \E k \in 1..26 : LowerLetters[k] = c
    THEN UpperLetters[CHOOSE k \in 1..26 : LowerLetters[k] = c]
    ELSE c

toLowerCase(s) == [k \in 1..Len(s) |-> toLowerCaseChar(s[k])]

(* String.prototype.split(sep): scan from position k with the finished    *)
(* segments and the segment being read.                                   *)
RECURSIVE splitFrom(_, _, _, _, _)
splitFrom(s, sep, k, done, cur) ==
    IF k > Len(s) THEN Append(done, cur)
    ELSE IF s[k] = sep
         THEN splitFrom(s, sep, k + 1, Append(done, cur), <<>>)
         ELSE splitFrom(s, sep, k + 1, done, Append(cur, s[k]))

split(s, sep) == splitFrom(s, sep, 1, <<>>, <<>>)

(* .filter((i) => i): the empty string is falsy *)
filterTruthy(segs) == SelectSeq(segs, LAMBDA x : x # <<>>)

some(seq, P(_)) == \E k \in 1..Len(seq) : P(seq[k])
every(seq, P(_)) == \A k \in 1..Len(seq) : P(seq[k])

Max(a, b) == IF a >= b THEN a ELSE b

-----------------------------------------------------------------------------
(* Module constants. *)
HEX_CHARS == <<"0","1","2","3","4","5","6","7","8","9",
               "A","B","C","D","E","F","a","b","c","d","e","f">>
BASE58_ALPHABET ==
    <<"1","2","3","4","5","6","7","8","9",
      "A","B","C","D","E","F","G","H","J","K","L","M","N","P","Q","R","S",
      "T","U","V","W","X","Y","Z",
      "a","b","c","d","e","f","g","h","i","j","k","m","n","o","p","q","r",
      "s","t","u","v","w","x","y","z">>
MaxPatternLen == 20

Chains == {"evm", "solana", "aptos", "tron"}

-----------------------------------------------------------------------------
stringIncludes_alwaysLower(string, substring, caseSensitive) ==
    IF Len(substring) < 1 THEN TRUE
    ELSE \A k \in 1..Len(substring) : substring[k] \in Chars(toLowerCase(string))

(* stringIncludes(string, substring, caseSensitive) *)
stringIncludes(string, substring, caseSensitive) ==
    IF Len(substring) < 1 THEN TRUE
    ELSE LET str == IF ~caseSensitive THEN toLowerCase(string) ELSE string
         IN \A k \in 1..Len(substring) : substring[k] \in Chars(str)

chainType(chain) == IF chain \in {"evm", "aptos"} THEN "hex" ELSE "base58"
chainAlphabet(chain) ==
    IF chain \in {"evm", "aptos"} THEN HEX_CHARS ELSE BASE58_ALPHABET

isValidChars_prefixOnly(chain, pre, suf, caseSensitive) ==
    IF ~ every(pre, LAMBDA p : stringIncludes(chainAlphabet(chain), p, caseSensitive))
    THEN <<"InvalidAlphabet", chainType(chain), chainAlphabet(chain), chain>>
    ELSE <<>>

(* isValidChars: <<>> stands for `true`, otherwise the error's content:   *)
(* the alphabet's type, the alphabet and the chain it names.              *)
isValidChars(chain, pre, suf, caseSensitive) ==
    LET alphabet == chainAlphabet(chain) IN
    IF \/ ~ every(pre, LAMBDA p : stringIncludes(alphabet, p, caseSensitive))
       \/ ~ every(suf, LAMBDA s : stringIncludes(alphabet, s, caseSensitive))
    THEN <<"InvalidAlphabet", chainType(chain), alphabet, chain>>
    ELSE <<>>

-----------------------------------------------------------------------------
(* The inputs. *)
Rep(c, n) == [k \in 1..n |-> c]

Workers == 1..MaxWorkers

(* flags.workers is <<>> when the option is absent, <<n>> when given. *)
truthy(opt) == opt # <<>> /\ opt[1] # 0

JobPatterns ==
    { [chain |-> "evm", caseSensitive |-> FALSE,
       prefix |-> <<"1","1">>, suffix |-> <<>>],
      [chain |-> "solana", caseSensitive |-> TRUE,
       prefix |-> <<"S","o">>, suffix |-> <<"a",",","b">>],
      [chain |-> "evm", caseSensitive |-> FALSE,
       prefix |-> Rep("a", MaxPatternLen + 1), suffix |-> <<>>],
      [chain |-> "evm", caseSensitive |-> TRUE,
       prefix |-> <<"a","b","c">>, suffix |-> <<"x","y","z">>] }

(* Before the generator is called: no key, no candidate, no result. *)
GenIdle ==
    [state |-> "idle", privateKey |-> -1, address |-> <<>>,
     evmAddress |-> <<>>, result |-> <<>>]

InitLocals ==
    /\ prefixes = <<>>
    /\ suffixes = <<>>
    /\ workers = 0
    /\ num = 0
    /\ pc = "parse"
    /\ error = <<>>
    /\ logged = FALSE
    /\ i = 0
    /\ count = 0
    /\ wstate = [w \in Workers |-> "none"]
    /\ signalled = [w \in Workers |-> FALSE]
    /\ chan = [w \in Workers |-> 0]
    /\ sent = [w \in Workers |-> 0]
    /\ records = 0
    /\ keypairs = 0
    /\ gen = GenIdle

Init ==
    /\ \E j \in JobPatterns :
         /\ args = [prefix |-> j.prefix, suffix |-> j.suffix]
         /\ \E fw \in {<<>>} \cup {<<n>> : n \in Workers}, fn \in 1..MaxNum :
              flags = [chain |-> j.chain, caseSensitive |-> j.caseSensitive,
                       workers |-> fw, num |-> fn, contract |-> FALSE]
    /\ cpus = 4
    /\ InitLocals

-----------------------------------------------------------------------------
(* Address.run(), the part every process executes. *)

parsePatterns_keepCase(arg, caseSensitive) == filterTruthy(split(arg, ","))

(* const prefixes, suffixes, workers, num *)
parsePatterns(arg, caseSensitive) ==
    filterTruthy(split(IF caseSensitive THEN arg ELSE toLowerCase(arg), ","))

defaultWorkers(opt, ncpu) ==
    Max(1, IF truthy(opt) THEN opt[1] ELSE ncpu \div 2)

Parse ==
    /\ pc = "parse"
    /\ prefixes' = parsePatterns(args.prefix, flags.caseSensitive)
    /\ suffixes' = parsePatterns(args.suffix, flags.caseSensitive)
    /\ workers' = defaultWorkers(flags.workers, cpus)
    /\ num' = Max(1, flags.num)
    /\ pc' = "checkLength"
    /\ UNCHANGED <<gen, inputVars, error, logged, i, count, poolVars>>

tooLong_ge(pre, suf) ==
    \/ some(pre, LAMBDA p : Len(p) >= MaxPatternLen)
    \/ some(suf, LAMBDA s : Len(s) >= MaxPatternLen)

(* prefixes.some((p) => p.length > 20) || suffixes.some((s) => s.length > 20) *)
tooLong(pre, suf) ==
    \/ some(pre, LAMBDA p : Len(p) > MaxPatternLen)
    \/ some(suf, LAMBDA s : Len(s) > MaxPatternLen)

(* this.error('Prefix and suffix must be less than 20 characters') throws *)
CheckLength ==
    /\ pc = "checkLength"
    /\ IF tooLong(prefixes, suffixes)
       THEN /\ error' = <<"PatternTooLong">>
            /\ pc' = "failed"
       ELSE /\ error' = error
            /\ pc' = "checkChars"
    /\ UNCHANGED <<gen, inputVars, prefixes, suffixes, workers, num, logged, i,
                   count, poolVars>>

CheckChars_noReturn ==
    /\ pc = "checkChars"
    /\ error' = isValidChars(flags.chain, prefixes, suffixes,
                             flags.caseSensitive)
    /\ pc' = "validated"
    /\ UNCHANGED <<gen, inputVars, prefixes, suffixes, workers, num, logged, i,
                   count, poolVars>>

(* isValidChars(...) !== true: this.error(isValid.error) throws *)
CheckChars ==
    /\ pc = "checkChars"
    /\ LET isValid == isValidChars(flags.chain, prefixes, suffixes,
                                   flags.caseSensitive)
       IN IF isValid # <<>>
          THEN /\ error' = isValid
               /\ pc' = "failed"
          ELSE /\ error' = error
               /\ pc' = "validated"
    /\ UNCHANGED <<gen, inputVars, prefixes, suffixes, workers, num, logged, i,
                   count, poolVars>>

-----------------------------------------------------------------------------
(* The primary's branch: announce, fork, count the messages. *)

Announce ==
    /\ pc = "validated"
    /\ logged' = TRUE
    /\ i' = 0
    /\ count' = 0
    /\ pc' = "forking"
    /\ UNCHANGED <<gen, inputVars, prefixes, suffixes, workers, num, error,
                   poolVars>>

(* One iteration of the for loop: cluster.fork().  The forked process runs *)
(* run() on the same argv, passes the same validation and enters the       *)
(* generator.  The loop's exit test is part of the step.                   *)
Fork ==
    /\ pc = "forking"
    /\ i < workers
    /\ wstate' = [wstate EXCEPT ![i + 1] = "Searching"]
    /\ i' = i + 1
    /\ pc' = IF i + 1 < workers THEN "forking" ELSE "listening"
    /\ UNCHANGED <<gen, inputVars, prefixes, suffixes, workers, num, error, logged,
                   count, signalled, chan, sent, records, keypairs>>

Alive(w) == wstate[w] \in {"Searching", "Found", "Emitted", "Sent"}

(* for (const id in cluster.workers) cluster.workers[id]?.process.kill()  *)
(* kill() sends SIGTERM; on a process that is gone it does nothing.       *)
killAll(sig, ws) == [w \in Workers |-> sig[w] \/ ws[w] \in {"Searching", "Found", "Emitted", "Sent"}]

shouldKill_late(c, n) == c > n

(* if (count >= num) *)
shouldKill(c, n) == c >= n

(* child.on('message'): handlers run once the fork loop has returned. *)
OnMessage(w) ==
    /\ pc = "listening"
    /\ chan[w] > 0
    /\ chan' = [chan EXCEPT ![w] = @ - 1]
    /\ count' = count + 1
    /\ signalled' = IF shouldKill(count + 1, num)
                    THEN killAll(signalled, wstate)
                    ELSE signalled
    /\ UNCHANGED <<gen, inputVars, prefixes, suffixes, workers, num, pc, error,
                   logged, i, wstate, sent, records, keypairs>>

-----------------------------------------------------------------------------
(* The worker's branch. *)

bump(k) == IF k < MaxKeys THEN k + 1 ELSE k

(* One iteration of the generator's do-while whose candidate fails the test *)
Miss(w) ==
    /\ wstate[w] = "Searching"
    /\ keypairs < MaxKeys
    /\ keypairs' = bump(keypairs)
    /\ UNCHANGED <<gen, inputVars, prefixes, suffixes, workers, num, pc, error,
                   logged, i, count, wstate, signalled, chan, sent, records>>

(* The iteration whose candidate passes: the generator returns. *)
Hit(w) ==
    /\ wstate[w] = "Searching"
    /\ keypairs' = bump(keypairs)
    /\ wstate' = [wstate EXCEPT ![w] = "Found"]
    /\ UNCHANGED <<gen, inputVars, prefixes, suffixes, workers, num, pc, error,
                   logged, i, count, signalled, chan, sent, records>>

(* notify(...) and this.log(content) / fs.writeFileSync(..., 'a+') *)
Emit(w) ==
    /\ wstate[w] = "Found"
    /\ records' = records + 1
    /\ wstate' = [wstate EXCEPT ![w] = "Emitted"]
    /\ UNCHANGED <<gen, inputVars, prefixes, suffixes, workers, num, pc, error,
                   logged, i, count, signalled, chan, sent, keypairs>>

afterSend_again == "Emitted"

afterSend_respawn == "Searching"

(* Nothing follows process.send: the worker does not search again. *)
afterSend == "Sent"

Send_beforeEmit(w) ==
    /\ wstate[w] = "Found"
    /\ chan' = [chan EXCEPT ![w] = @ + 1]
    /\ sent' = [sent EXCEPT ![w] = @ + 1]
    /\ wstate' = [wstate EXCEPT ![w] = afterSend]
    /\ UNCHANGED <<gen, inputVars, prefixes, suffixes, workers, num, pc, error,
                   logged, i, count, signalled, records, keypairs>>

(* process.send({ generated: true }) *)
Send(w) ==
    /\ wstate[w] = "Emitted"
    /\ chan' = [chan EXCEPT ![w] = @ + 1]
    /\ sent' = [sent EXCEPT ![w] = @ + 1]
    /\ wstate' = [wstate EXCEPT ![w] = afterSend]
    /\ UNCHANGED <<gen, inputVars, prefixes, suffixes, workers, num, pc, error,
                   logged, i, count, signalled, records, keypairs>>

(* run() has returned; the process may end by itself. *)
Exit(w) ==
    /\ wstate[w] = "Sent"
    /\ wstate' = [wstate EXCEPT ![w] = "Exited"]
    /\ UNCHANGED <<gen, inputVars, prefixes, suffixes, workers, num, pc, error,
                   logged, i, count, signalled, chan, sent, records, keypairs>>

(* SIGTERM sent by the primary is delivered. *)
Die(w) ==
    /\ Alive(w)
    /\ signalled[w]
    /\ wstate' = [wstate EXCEPT ![w] = "Killed"]
    /\ UNCHANGED <<gen, inputVars, prefixes, suffixes, workers, num, pc, error,
                   logged, i, count, signalled, chan, sent, records, keypairs>>

Crash_killsPool(w) ==
    /\ wstate[w] \in {"Searching", "Found", "Emitted"}
    /\ wstate' = [wstate EXCEPT ![w] = "Crashed"]
    /\ signalled' = [v \in Workers |-> signalled[v] \/ (v # w /\ Alive(v))]
    /\ UNCHANGED <<gen, inputVars, prefixes, suffixes, workers, num, pc, error,
                   logged, i, count, chan, sent, records, keypairs>>

(* The process fails or is ended from outside before it has sent; the     *)
(* primary registers no 'exit' handler.                                   *)
Crash(w) ==
    /\ wstate[w] \in {"Searching", "Found", "Emitted"}
    /\ wstate' = [wstate EXCEPT ![w] = "Crashed"]
    /\ UNCHANGED <<gen, inputVars, prefixes, suffixes, workers, num, pc, error,
                   logged, i, count, signalled, chan, sent, records, keypairs>>

WorkerStep(w) ==
    \/ Miss(w)
    \/ Hit(w)
    \/ Emit(w)
    \/ Send(w)
    \/ Exit(w)
    \/ Die(w)
    \/ Crash(w)

Next ==
    \/ Parse
    \/ CheckLength
    \/ CheckChars
    \/ Announce
    \/ Fork
    \/ \E w \in Workers : OnMessage(w)
    \/ \E w \in Workers : WorkerStep(w)

Spec == Init /\ [][Next]_vars

(* The scheduling the processes get: the primary's synchronous code runs  *)
(* to its end, a message that was sent is handled, a signal that was sent *)
(* is delivered, and a worker that is not stopped goes on to its next     *)
(* statement.  Fairness of Hit(w) is the assumption that the random       *)
(* search of a worker finds a match.  Nothing forces Exit or Crash.       *)
Fairness ==
    /\ WF_vars(Parse)
    /\ WF_vars(CheckLength)
    /\ WF_vars(CheckChars)
    /\ WF_vars(Announce)
    /\ WF_vars(Fork)
    /\ \A w \in Workers :
         /\ WF_vars(OnMessage(w))
         /\ WF_vars(Hit(w))
         /\ WF_vars(Emit(w))
         /\ WF_vars(Send(w))
         /\ WF_vars(Die(w))

FairSpec == Spec /\ Fairness

-----------------------------------------------------------------------------
(* Validation alone, over a wide range of patterns. *)
ValidatePatterns ==
    { <<>>,
      <<"1","1">>,
      <<"a","b","c","1","2","3">>,
      <<"A","b">>,
      <<"l">>, <<"L">>, <<"O">>, <<"o">>, <<"I">>, <<"i">>, <<"0">>, <<"g">>,
      <<"a",",",",","B">>,
      <<"1",",","l">>,
      Rep("a", MaxPatternLen),
      Rep("a", MaxPatternLen + 1),
      Rep("g", MaxPatternLen + 1),
      Rep("0", MaxPatternLen + 1),
      <<"l", ",">> \o Rep("1", MaxPatternLen + 1) }

ValidateSuffixes ==
    { <<>>, <<"f","F">>, <<"z">>, <<"l">>, Rep("1", MaxPatternLen),
      Rep("1", MaxPatternLen + 1) }

ValidateInit ==
    /\ \E p \in ValidatePatterns, s \in ValidateSuffixes :
         args = [prefix |-> p, suffix |-> s]
    /\ \E c \in Chains, cs \in BOOLEAN :
         flags = [chain |-> c, caseSensitive |-> cs,
                  workers |-> <<1>>, num |-> 1, contract |-> FALSE]
    /\ cpus = 4
    /\ InitLocals

ValidateNext ==
    \/ Parse
    \/ CheckLength
    \/ CheckChars

ValidateSpec == ValidateInit /\ [][ValidateNext]_vars

-----------------------------------------------------------------------------
(* Properties of the coordinator. *)

Forked == {w \in Workers : wstate[w] # "none"}
Senders == {w \in Workers : sent[w] > 0}
AnyCrashed == \E w \in Workers : wstate[w] = "Crashed"
NoneSearching == \A w \in Workers : wstate[w] # "Searching"
NoneSignalled == \A w \in Workers : ~signalled[w]
Parsed == pc # "parse"

RunEnded ==
    /\ pc = "listening"
    /\ count >= num
    /\ \A w \in Workers : ~Alive(w)
    /\ records >= num

C3_RunEnds ==
    <>( \/ pc = "failed"
        \/ (Parsed /\ workers < num)
        \/ AnyCrashed
        \/ RunEnded )

C3_Witness ==
    /\ RunEnded
    /\ ~AnyCrashed
    /\ workers > num
    /\ \E w \in Workers : wstate[w] = "Killed" /\ sent[w] = 0

(* C4 as stated: with workers >= num the number of records emitted never  *)
(* exceeds num.                                                           *)
C4_RecordsNeverExceedNum ==
    (Parsed /\ workers >= num) => records <= num

(* C5: a worker sends at most one completion signal and, once it has left *)
(* the search, never searches again; no process is forked beyond the      *)
(* `workers` of the loop; so the counter is at most workers.              *)
C5_OneSignalPerWorker ==
    /\ [](/\ \A w \in Workers : sent[w] <= 1
          /\ Cardinality(Forked) <= workers
          /\ (pc = "listening" => Cardinality(Forked) = workers)
          /\ count <= workers)
    /\ [][\A w \in Workers :
            (wstate[w] \notin {"none", "Searching"}) =>
                wstate'[w] # "Searching"]_vars
    /\ [][pc = "listening" =>
            \A w \in Workers : wstate[w] = "none" => wstate'[w] = "none"]_vars

C5_Witness ==
    /\ workers >= 2
    /\ count = workers
    /\ \A w \in Forked : sent[w] = 1

-----------------------------------------------------------------------------
(* Properties of the validation. *)

Alternatives ==
    {prefixes[k] : k \in 1..Len(prefixes)} \cup
    {suffixes[k] : k \in 1..Len(suffixes)}
AlphabetChars == Chars(chainAlphabet(flags.chain))
ErrorKinds == {"PatternTooLong", "InvalidAlphabet"}

(* C7: a failed validation leaves an error of one of the two kinds, no    *)
(* worker, no keypair, no record and no announcement; a worker exists     *)
(* only after a validation without error and after the announcement; and  *)
(* a validation that succeeds leads to the announcement and to exactly    *)
(* `workers` (at least one) forked processes.                             *)
C7_SpawnIffValid ==
    /\ [](pc = "failed" =>
            /\ error # <<>>
            /\ error[1] \in ErrorKinds
            /\ Forked = {}
            /\ keypairs = 0
            /\ records = 0
            /\ ~logged)
    /\ [](Forked # {} => error = <<>> /\ logged)
    /\ [](error # <<>> => pc = "failed")
    /\ [][logged' /\ ~logged => Forked' = {}]_vars
    /\ (pc = "validated" ~>
            (logged /\ workers >= 1 /\ Cardinality(Forked) = workers))

C7_Witness ==
    /\ flags.chain = "evm"
    /\ args.prefix = <<"1","1">>
    /\ flags.workers = <<1>>
    /\ logged
    /\ Forked = {1}
    /\ wstate[1] = "Searching"
    /\ pc = "listening"

C9_CharsInAlphabet ==
    pc = "validated" =>
        \A a \in Alternatives : Len(a) <= 20 /\ Chars(a) \subseteq AlphabetChars

(* C9 as amended: after a successful validation every alternative has at  *)
(* most 20 characters and each of its characters is a member of the       *)
(* chain's alphabet in case-sensitive mode, and in case-insensitive mode  *)
(* is in lower case and the lower case of a member of the alphabet.       *)
C9_CharsInAlphabetUpToCase ==
    pc = "validated" =>
        \A a \in Alternatives :
            /\ Len(a) <= 20
            /\ \A c \in Chars(a) :
                 IF flags.caseSensitive
                 THEN c \in AlphabetChars
                 ELSE /\ toLowerCaseChar(c) = c
                      /\ \E m \in AlphabetChars : toLowerCaseChar(m) = c

C9_Witness ==
    /\ pc = "validated"
    /\ flags.chain = "solana"
    /\ ~flags.caseSensitive
    /\ args.prefix = <<"L">>
    /\ <<"l">> \in Alternatives
    /\ "l" \notin AlphabetChars

otherCase(c) ==
    IF toLowerCaseChar(c) # c THEN toLowerCaseChar(c) ELSE toUpperCaseChar(c)

CharsChecked ==
    \/ pc = "validated"
    \/ pc = "failed" /\ error[1] = "InvalidAlphabet"

KeepsCase ==
    /\ prefixes = filterTruthy(split(args.prefix, ","))
    /\ suffixes = filterTruthy(split(args.suffix, ","))

(* C10 as stated: in case-sensitive mode the pattern keeps its case and   *)
(* is accepted iff each character or its other-case variant is in the     *)
(* chain's alphabet.                                                      *)
C10_CaseInsensitiveMembership ==
    (flags.caseSensitive /\ CharsChecked) =>
        /\ KeepsCase
        /\ pc = "validated" <=>
             \A a \in Alternatives : \A c \in Chars(a) :
                 c \in AlphabetChars \/ otherCase(c) \in AlphabetChars

(* C10 as amended: in case-sensitive mode the pattern keeps its case and  *)
(* is accepted iff each character, in the case given, is in the chain's   *)
(* alphabet; for the hex alphabet, which holds both cases of its letters, *)
(* this is the same as membership of the character or its other case.     *)
C10_ExactMembership ==
    (flags.caseSensitive /\ CharsChecked) =>
        /\ KeepsCase
        /\ pc = "validated" <=>
             \A a \in Alternatives : \A c \in Chars(a) : c \in AlphabetChars
        /\ chainType(flags.chain) = "hex" =>
             (pc = "validated" <=>
                \A a \in Alternatives : \A c \in Chars(a) :
                    c \in AlphabetChars \/ otherCase(c) \in AlphabetChars)

C10_Witness ==
    /\ flags.caseSensitive
    /\ flags.chain = "tron"
    /\ pc = "failed"
    /\ error[1] = "InvalidAlphabet"
    /\ Alternatives = {<<"l">>}

-----------------------------------------------------------------------------
(* Properties of the worker's branch. *)

(* C14: a worker sends its completion signal only after it has emitted    *)
(* its record: a send is made from the state reached by the emission, and *)
(* the counter and the number of workers that sent are at most the number *)
(* of records emitted.                                                    *)
C14_SignalAfterRecord ==
    /\ [](count <= records)
    /\ [](Cardinality(Senders) <= records)
    /\ [][\A w \in Workers : sent'[w] # sent[w] => wstate[w] = "Emitted"]_vars

C14_Witness ==
    /\ count = 2
    /\ records = 3
    /\ Cardinality(Senders) = 2

(* C18: the step in which a worker crashes changes neither the counter    *)
(* nor the channels, signals no worker and changes no other worker; a     *)
(* crashed worker has sent nothing and is never started again; no process *)
(* is forked beyond `workers`; and the counter reaches num only when num  *)
(* workers that did not crash have sent their signal.                     *)
C18_CrashIsSilentLoss ==
    /\ [][\A w \in Workers :
            (wstate[w] # "Crashed" /\ wstate'[w] = "Crashed") =>
                /\ count' = count
                /\ chan' = chan
                /\ signalled' = signalled
                /\ \A v \in Workers \ {w} : wstate'[v] = wstate[v]]_vars
    /\ [][\A w \in Workers :
            wstate[w] = "Crashed" => wstate'[w] = "Crashed"]_vars
    /\ [](\A w \in Workers : wstate[w] = "Crashed" => sent[w] = 0)
    /\ [](Cardinality(Forked) <= workers)
    /\ []((Parsed /\ count >= num) =>
            Cardinality({w \in Workers :
                           sent[w] > 0 /\ wstate[w] # "Crashed"}) >= num)

C18_Witness ==
    /\ AnyCrashed
    /\ workers = 3
    /\ num = 2
    /\ count = 2
    /\ \E w \in Workers : wstate[w] = "Killed"

-----------------------------------------------------------------------------
(* The size of the pool, over the values of --workers and the CPU counts. *)
WorkersOptions == {<<>>} \cup {<<n>> : n \in (-2)..MaxWorkers}
CpuCounts == 1..(2 * MaxWorkers + 1)

WorkersInit ==
    /\ args = [prefix |-> <<"1","1">>, suffix |-> <<>>]
    /\ \E fw \in WorkersOptions :
         flags = [chain |-> "evm", caseSensitive |-> FALSE,
                  workers |-> fw, num |-> 1, contract |-> FALSE]
    /\ cpus \in CpuCounts
    /\ InitLocals

WorkersNext ==
    \/ Parse
    \/ CheckLength
    \/ CheckChars
    \/ Announce
    \/ Fork

WorkersSpec == WorkersInit /\ [][WorkersNext]_vars

(* C19 as stated: once the fork loop has ended, the number of processes   *)
(* forked is the requested worker count if the option was given, and      *)
(* floor(cpus / 2) if it was absent, raised to 1 when smaller.            *)
C19_PoolSize ==
    pc = "listening" =>
        Cardinality(Forked) =
            Max(1, IF flags.workers # <<>> THEN flags.workers[1]
                   ELSE cpus \div 2)

-----------------------------------------------------------------------------
(* The generators.  Buffers are sequences of bytes.  The hash functions,  *)
(* the key derivations and the lengths of the buffers are those of        *)
(* libraries outside this repository: a private key, a public key, an     *)
(* address and a checksum are one byte long here, and each hash is a      *)
(* fixed function of its input.  The encodings (hex, base58, EIP-55 case, *)
(* the 0x41 version byte) are computed as the libraries compute them.     *)
NumKeys == 16
Keys == 0..(NumKeys - 1)

HexDigits == <<"0","1","2","3","4","5","6","7","8","9",
               "a","b","c","d","e","f">>

(* Buffer.toString('hex'), hasher.hex() *)
toHex(bytes) ==
    [j \in 1..(2 * Len(bytes)) |->
        IF j % 2 = 1 THEN HexDigits[(bytes[(j + 1) \div 2] \div 16) + 1]
        ELSE HexDigits[(bytes[(j + 1) \div 2] % 16) + 1]]

hexValue(c) == CHOOSE v \in 0..15 : HexDigits[v + 1] = toLowerCaseChar(c)

(* toBuffer('0x...'): the bytes of a hex string of either case *)
fromHex(str) ==
    [j \in 1..(Len(str) \div 2) |->
        16 * hexValue(str[2 * j - 1]) + hexValue(str[2 * j])]

substring(str, from) == SubSeq(str, from + 1, Len(str))
startsWith(str, p) == Len(p) <= Len(str) /\ SubSeq(str, 1, Len(p)) = p
endsWith(str, p) ==
    Len(p) <= Len(str) /\ SubSeq(str, Len(str) - Len(p) + 1, Len(str)) = p

(* base-x encode: one '1' per leading zero byte, then the base-58 digits  *)
(* of the big-endian number.                                              *)
RECURSIVE bytesValue(_)
bytesValue(bytes) ==
    IF bytes = <<>> THEN 0
    ELSE 256 * bytesValue(SubSeq(bytes, 1, Len(bytes) - 1)) + bytes[Len(bytes)]

RECURSIVE base58Digits(_)
base58Digits(n) ==
    IF n = 0 THEN <<>>
    ELSE Append(base58Digits(n \div 58), BASE58_ALPHABET[(n % 58) + 1])

RECURSIVE leadingZeros(_)
leadingZeros(bytes) ==
    IF bytes = <<>> \/ bytes[1] # 0 THEN <<>>
    ELSE <<BASE58_ALPHABET[1]>> \o leadingZeros(Tail(bytes))

bs58encode(bytes) == leadingZeros(bytes) \o base58Digits(bytesValue(bytes))

(* privateToAddress(privateKey): the address bytes of a private key *)
privateToAddress(k) == <<(k * 37 + 11) % 256>>

(* keccak256(RLP.encode([address, 0])).slice(12) *)
contractAddress(addr) == <<(addr[1] * 5 + 3) % 256>>

(* sha256(sha256(bytes)).slice(0, 4) *)
sha256Checksum(bytes) == <<(bytes[1] + 3 * bytes[2] + 1) % 256>>

(* nacl.sign.keyPair(): publicKey, and secretKey = seed ++ publicKey *)
publicKeyOf(k) == <<(k * 101 + 7) % 256>>
secretKeyOf(k) == <<k>> \o publicKeyOf(k)

(* sha3_256 of the bytes fed to the hasher, as hasher.hex() *)
sha3Hex(bytes) == toHex(<<(bytes[1] * 29 + bytes[2] + 5) % 256>>)

(* toChecksumAddress: lower-case the digits after 0x, then upper-case the *)
(* letter at position j when nibble j of the hash of the lower-case       *)
(* string is 8 or more.                                                   *)
checksumNibble(lower, j) ==
    LET n == bytesValue(fromHex(lower))
    IN (n * 7 + 5 * j + (n \div 16)) % 16

toChecksumAddress(hexAddress) ==
    LET lower == toLowerCase(substring(hexAddress, 2))
    IN <<"0", "x">> \o
       [j \in 1..Len(lower) |->
           IF checksumNibble(lower, j) >= 8 THEN toUpperCaseChar(lower[j])
           ELSE lower[j]]

(* toTronAddress(address) *)
toTronAddress(address) ==
    LET bytes == fromHex(<<"4", "1">> \o address)
    IN bs58encode(bytes \o sha256Checksum(bytes))

-----------------------------------------------------------------------------
(* generateEvmAddress and generateEd25519Address. *)

loopAgain_and(pre, suf, address) ==
    /\ Len(pre) > 0 /\ ~ some(pre, LAMBDA p : startsWith(address, p))
    /\ Len(suf) > 0 /\ ~ some(suf, LAMBDA x : endsWith(address, x))

(* The condition of both do-while loops. *)
loopAgain(pre, suf, address) ==
    \/ Len(pre) > 0 /\ ~ some(pre, LAMBDA p : startsWith(address, p))
    \/ Len(suf) > 0 /\ ~ some(suf, LAMBDA x : endsWith(address, x))

evmBody_noChecksum(k, fl, g) ==
    [g EXCEPT !.privateKey = k,
              !.address = IF fl.contract
                          THEN toHex(contractAddress(privateToAddress(k)))
                          ELSE toHex(privateToAddress(k))]

evmBody_deployer(k, fl, g) ==
    [g EXCEPT !.privateKey = k,
              !.address =
                  IF fl.caseSensitive
                  THEN substring(toChecksumAddress(
                           <<"0", "x">> \o toHex(privateToAddress(k))), 2)
                  ELSE toHex(privateToAddress(k))]

(* The body of generateEvmAddress's loop with the key k drawn. *)
evmBody(k, fl, g) ==
    LET address == toHex(privateToAddress(k)) IN
    IF fl.chain = "tron"
    THEN [g EXCEPT !.privateKey = k,
                   !.evmAddress = toChecksumAddress(<<"0", "x">> \o address),
                   !.address = IF ~fl.caseSensitive
                               THEN toLowerCase(toTronAddress(address))
                               ELSE toTronAddress(address)]
    ELSE LET a1 == IF fl.contract
                   THEN toHex(contractAddress(privateToAddress(k)))
                   ELSE address
         IN [g EXCEPT !.privateKey = k,
                      !.address =
                          IF fl.caseSensitive
                          THEN substring(
                                   toChecksumAddress(<<"0", "x">> \o a1), 2)
                          ELSE a1]

(* What generateEvmAddress returns after its loop. *)
evmResult(fl, g) ==
    IF fl.chain # "tron"
    THEN [address |-> toChecksumAddress(
                          <<"0", "x">> \o toHex(privateToAddress(g.privateKey))),
          privateKey |-> toHex(<<g.privateKey>>),
          contract |-> IF fl.contract
                       THEN toChecksumAddress(<<"0", "x">> \o g.address)
                       ELSE <<>>,
          evmAddress |-> g.evmAddress,
          publicKey |-> <<>>]
    ELSE [address |-> toTronAddress(toLowerCase(substring(g.evmAddress, 2))),
          privateKey |-> toHex(<<g.privateKey>>),
          contract |-> <<>>,
          evmAddress |-> g.evmAddress,
          publicKey |-> <<>>]

(* The body of generateEd25519Address's loop with the key pair of seed k. *)
ed25519Body(k, fl, g) ==
    LET a0 == IF fl.chain = "aptos"
              THEN sha3Hex(publicKeyOf(k) \o <<0>>)
              ELSE bs58encode(publicKeyOf(k))
    IN [g EXCEPT !.privateKey = k,
                 !.address = IF ~fl.caseSensitive THEN toLowerCase(a0) ELSE a0]

ed25519Result_loopAddress(fl, g) ==
    [address |-> IF fl.chain = "aptos" THEN <<"0", "x">> \o g.address
                 ELSE g.address,
     privateKey |-> IF fl.chain = "aptos"
                    THEN toHex(SubSeq(secretKeyOf(g.privateKey), 1, 1))
                    ELSE toHex(secretKeyOf(g.privateKey)),
     publicKey |-> IF fl.chain = "aptos"
                   THEN <<"0", "x">> \o toHex(publicKeyOf(g.privateKey))
                   ELSE <<>>,
     contract |-> <<>>,
     evmAddress |-> <<>>]

(* What generateEd25519Address returns after its loop; slice(0, 32) is    *)
(* the seed half of the secret key.                                       *)
ed25519Result(fl, g) ==
    IF fl.chain = "aptos"
    THEN [address |-> <<"0", "x">> \o g.address,
          publicKey |-> <<"0", "x">> \o toHex(publicKeyOf(g.privateKey)),
          privateKey |-> toHex(SubSeq(secretKeyOf(g.privateKey), 1, 1)),
          contract |-> <<>>,
          evmAddress |-> <<>>]
    ELSE [address |-> bs58encode(publicKeyOf(g.privateKey)),
          privateKey |-> toHex(secretKeyOf(g.privateKey)),
          publicKey |-> <<>>,
          contract |-> <<>>,
          evmAddress |-> <<>>]

(* switch (flags.chain): which generator run() calls *)
usesEvmGenerator(chain) == chain \in {"evm", "tron"}

generatorBody(k, fl, g) ==
    IF usesEvmGenerator(fl.chain) THEN evmBody(k, fl, g)
    ELSE ed25519Body(k, fl, g)

generatorResult(fl, g) ==
    IF usesEvmGenerator(fl.chain) THEN evmResult(fl, g)
    ELSE ed25519Result(fl, g)

(* One iteration of the do-while loop of the generator called by a worker *)
(* process, which has parsed and validated the same arguments.            *)
GenIterate ==
    /\ pc = "validated"
    /\ gen.state \in {"idle", "Searching"}
    /\ \E k \in Keys :
         LET g == generatorBody(k, flags, gen)
         IN gen' = [g EXCEPT !.state =
                        IF loopAgain(prefixes, suffixes, g.address)
                        THEN "Searching" ELSE "Found"]
    /\ UNCHANGED <<inputVars, prefixes, suffixes, workers, num, pc, error,
                   logged, i, count, poolVars>>

(* The statements after the loop and the return. *)
GenReturn ==
    /\ pc = "validated"
    /\ gen.state = "Found"
    /\ gen' = [gen EXCEPT !.state = "Returned",
                          !.result = generatorResult(flags, gen)]
    /\ UNCHANGED <<inputVars, prefixes, suffixes, workers, num, pc, error,
                   logged, i, count, poolVars>>

Job(chain, cs, contract, prefix, suffix) ==
    [chain |-> chain, caseSensitive |-> cs, contract |-> contract,
     prefix |-> prefix, suffix |-> suffix]

GenJobs ==
    { Job("evm", FALSE, FALSE, <<>>, <<>>),
      Job("evm", FALSE, FALSE, <<"1","1">>, <<>>),
      Job("evm", FALSE, TRUE, <<"1","1">>, <<>>),
      Job("evm", FALSE, FALSE, <<"C">>, <<>>),
      Job("evm", FALSE, FALSE, <<"c">>, <<>>),
      Job("evm", TRUE, FALSE, <<"c">>, <<>>),
      Job("evm", TRUE, FALSE, <<"C">>, <<>>),
      Job("evm", TRUE, FALSE, <<"9">>, <<"F">>),
      Job("evm", TRUE, TRUE, <<"a">>, <<"C">>),
      Job("evm", FALSE, TRUE, <<"A">>, <<"c",",","e">>),
      Job("evm", FALSE, FALSE, <<"1",",","5">>, <<"1",",","e">>),
      Job("evm", FALSE, FALSE, Rep("1", MaxPatternLen + 1), <<>>),
      Job("evm", FALSE, FALSE, <<"g">>, <<>>),
      Job("tron", FALSE, FALSE, <<"N","R">>, <<>>),
      Job("tron", FALSE, TRUE, <<"n","r">>, <<"n">>),
      Job("tron", TRUE, FALSE, <<"N","r">>, <<>>),
      Job("tron", TRUE, TRUE, <<>>, <<"J">>),
      Job("tron", TRUE, FALSE, <<"P">>, <<"5",",","r">>),
      Job("solana", FALSE, FALSE, <<"4">>, <<"V">>),
      Job("solana", FALSE, FALSE, <<"4">>, <<"v">>),
      Job("solana", FALSE, TRUE, <<"3",",","5">>, <<>>),
      Job("solana", TRUE, FALSE, <<"4">>, <<"V">>),
      Job("solana", TRUE, TRUE, <<>>, <<"h",",","J">>),
      Job("solana", TRUE, FALSE, <<"l">>, <<>>),
      Job("aptos", FALSE, FALSE, <<"D">>, <<>>),
      Job("aptos", FALSE, TRUE, <<"d">>, <<"0">>),
      Job("aptos", TRUE, FALSE, <<"d">>, <<>>),
      Job("aptos", TRUE, FALSE, <<"D">>, <<>>),
      Job("aptos", TRUE, TRUE, <<>>, <<"e",",","c">>) }

GenInit ==
    /\ \E j \in GenJobs :
         /\ args = [prefix |-> j.prefix, suffix |-> j.suffix]
         /\ flags = [chain |-> j.chain, caseSensitive |-> j.caseSensitive,
                     workers |-> <<1>>, num |-> 1, contract |-> j.contract]
    /\ cpus = 4
    /\ InitLocals

GenNext ==
    \/ Parse
    \/ CheckLength
    \/ CheckChars
    \/ GenIterate
    \/ GenReturn

GenSpec == GenInit /\ [][GenNext]_vars

-----------------------------------------------------------------------------
(* Properties of the generators. *)

(* The Pattern Matcher of the specification. *)
PatternMatch(pre, suf, address) ==
    /\ pre = <<>> \/ \E k \in 1..Len(pre) : startsWith(address, pre[k])
    /\ suf = <<>> \/ \E k \in 1..Len(suf) : endsWith(address, suf[k])

HexPrefix == <<"0", "x">>

(* The form in which an address is matched: the display form without the *)
(* 0x of the hex chains, lower-cased unless the job is case-sensitive.    *)
matchingForm(fl, natural) ==
    LET body == IF chainType(fl.chain) = "hex" /\ startsWith(natural, HexPrefix)
                THEN substring(natural, 2) ELSE natural
    IN IF fl.caseSensitive THEN body ELSE toLowerCase(body)

(* The display form of the address derived from the private key k. *)
displayAddress(chain, k) ==
    CASE chain = "evm" ->
           toChecksumAddress(HexPrefix \o toHex(privateToAddress(k)))
      [] chain = "tron" -> toTronAddress(toHex(privateToAddress(k)))
      [] chain = "solana" -> bs58encode(publicKeyOf(k))
      [] chain = "aptos" -> HexPrefix \o sha3Hex(publicKeyOf(k) \o <<0>>)

returnedKey == fromHex(gen.result.privateKey)[1]
Returned == gen.state = "Returned"

(* C11: an iteration of the loop leaves Searching iff its candidate       *)
(* satisfies the Pattern Matcher; with both sets empty the first          *)
(* candidate is accepted.                                                 *)
C11_ExitIffMatch ==
    [][(gen.state \in {"idle", "Searching"} /\ gen' # gen) =>
          /\ gen'.state \in {"Searching", "Found"}
          /\ gen'.state = "Found" <=>
                PatternMatch(prefixes, suffixes, gen'.address)
          /\ (prefixes = <<>> /\ suffixes = <<>>) => gen'.state = "Found"]_vars

C11_Witness ==
    /\ gen.state = "Searching"
    /\ prefixes # <<>>
    /\ suffixes # <<>>
    /\ PatternMatch(prefixes, <<>>, gen.address)
    /\ ~PatternMatch(<<>>, suffixes, gen.address)

(* C12 as stated: the address field of every result, in matching form,    *)
(* satisfies the Pattern Matcher for the job's pattern.                   *)
C12_AddressFieldMatches ==
    Returned =>
        PatternMatch(prefixes, suffixes, matchingForm(flags, gen.result.address))

vanityAddress(r) == IF r.contract # <<>> THEN r.contract ELSE r.address

(* C12 as amended: the vanity-matching address of a result is its         *)
(* contract field in evm contract mode and its address field otherwise;   *)
(* in matching form it is the candidate the loop accepted and satisfies   *)
(* the Pattern Matcher for the job's pattern.                             *)
C12_VanityAddressMatches ==
    Returned =>
        /\ matchingForm(flags, vanityAddress(gen.result)) = gen.address
        /\ PatternMatch(prefixes, suffixes,
                        matchingForm(flags, vanityAddress(gen.result)))

C12_Witness ==
    /\ Returned
    /\ flags.chain = "evm"
    /\ flags.contract
    /\ gen.result.contract # <<>>
    /\ ~PatternMatch(prefixes, suffixes,
                     matchingForm(flags, gen.result.address))

(* C13: the returned private key is the key of the iteration that         *)
(* matched, and deriving from it gives the returned address in display    *)
(* form and, for tron, the returned EVM address, which the tron address   *)
(* encodes.                                                               *)
C13_RoundTrip ==
    Returned =>
        /\ returnedKey = gen.privateKey
        /\ generatorBody(returnedKey, flags, GenIdle).address = gen.address
        /\ gen.result.address = displayAddress(flags.chain, returnedKey)
        /\ flags.chain = "tron" =>
             /\ gen.result.evmAddress = displayAddress("evm", returnedKey)
             /\ gen.result.address =
                  toTronAddress(toLowerCase(substring(gen.result.evmAddress, 2)))

C13_Witness ==
    /\ Returned
    /\ flags.chain = "solana"
    /\ ~flags.caseSensitive
    /\ gen.result.address # gen.address
    /\ toLowerCase(gen.result.address) = gen.address

(* C15 as stated: for every validated job some address of the chain, in   *)
(* the form the loop tests, satisfies the loop's exit test.               *)
C15_SomeAddressMatches ==
    pc = "validated" =>
        \E k \in Keys :
            ~loopAgain(prefixes, suffixes,
                       generatorBody(k, flags, GenIdle).address)

(* C16: a result has a contract address iff the chain is evm and contract *)
(* mode is on; then the candidate tested was the contract address, the    *)
(* contract address is the creation address of the returned address, and  *)
(* the returned address is derived from the returned private key.         *)
C16_ContractAddress ==
    Returned =>
        /\ gen.result.contract # <<>> <=>
              (flags.chain = "evm" /\ flags.contract)
        /\ gen.result.contract # <<>> =>
              /\ matchingForm(flags, gen.result.contract) = gen.address
              /\ PatternMatch(prefixes, suffixes,
                              matchingForm(flags, gen.result.contract))
              /\ gen.result.contract =
                    toChecksumAddress(HexPrefix \o toHex(contractAddress(
                        fromHex(substring(gen.result.address, 2)))))
              /\ gen.result.address = displayAddress("evm", returnedKey)

C16_Witness ==
    /\ Returned
    /\ flags.caseSensitive
    /\ gen.result.contract # <<>>
    /\ gen.result.contract # gen.result.address

toUpperCase(str) == [k \in 1..Len(str) |-> toUpperCaseChar(str[k])]
caseFolded(arg) == filterTruthy(split(toLowerCase(arg), ","))

(* C17: in case-insensitive mode the parsed alternatives are those of the *)
(* upper-cased and of the lower-cased input, hold no upper-case letter,   *)
(* and every candidate tested is the lower case of the display form       *)
(* without 0x: inputs that differ in letter case only are the same job.   *)
C17_CaseInsensitive ==
    (~flags.caseSensitive /\ Parsed) =>
        /\ prefixes = caseFolded(toUpperCase(args.prefix))
        /\ prefixes = caseFolded(toLowerCase(args.prefix))
        /\ suffixes = caseFolded(toUpperCase(args.suffix))
        /\ suffixes = caseFolded(toLowerCase(args.suffix))
        /\ \A a \in Alternatives : toLowerCase(a) = a
        /\ gen.state # "idle" =>
             /\ toLowerCase(gen.address) = gen.address
             /\ gen.address =
                  toLowerCase(matchingForm(flags,
                      IF flags.chain = "evm" /\ flags.contract
                      THEN HexPrefix \o toHex(contractAddress(
                               privateToAddress(gen.privateKey)))
                      ELSE displayAddress(flags.chain, gen.privateKey)))

C17_Witness ==
    /\ ~flags.caseSensitive
    /\ flags.chain = "tron"
    /\ args.prefix # toLowerCase(args.prefix)
    /\ gen.state = "Found"
    /\ displayAddress("tron", gen.privateKey) # gen.address

====
